---- MODULE Spec2Model ----
(***************************************************************************)
(* Model of src/app.py: the sales/price dashboard.                         *)
(*                                                                         *)
(* Strings that the program orders or formats (month keys, product codes,  *)
(* dimensions) are sequences of character codes, so that Python's string   *)
(* ordering and f-string formatting are computed, not assumed.  A nullable *)
(* number is <<>> (NaN / None) or <<v>>.  A mean is the exact fraction     *)
(* [num, den].  Column names of the CSV files are written in ASCII:        *)
(*   dimension = '规格', net_price = '净价-不含售出',                      *)
(*   description = '产品描述', prior_price = '上月价格',                   *)
(*   price_delta = '价格变化', sales_amount = '销售额'.                    *)
(***************************************************************************)
EXTENDS Integers, Sequences, FiniteSets, TLC

(***************************************************************************)
(* Bounds of the model.                                                    *)
(***************************************************************************)
MaxRows == 3
MaxMonthRows == 1
MaxJoinRows == 2
MaxSalesRows == 2
MaxStatsRows == 2

(***************************************************************************)
(* Values.                                                                 *)
(***************************************************************************)
NULL == <<>>
Some(v) == <<v>>

\* the string of a decimal digit string literal, e.g. Str(<<2,0,2,4,0,1>>)
Str(ds) == [i \in 1..Len(ds) |-> 48 + ds[i]]

IsDigit(c) == c \in 48..57

RECURSIVE NatToStr(_)
NatToStr(n) == IF n < 10 THEN <<48 + n>>
               ELSE Append(NatToStr(n \div 10), 48 + (n % 10))

\* str(int)
IntToStr(n) == IF n < 0 THEN <<45>> \o NatToStr(-n) ELSE NatToStr(n)

RECURSIVE StrToNat(_)
StrToNat(s) == IF s = <<>> THEN 0
               ELSE 10 * StrToNat(SubSeq(s, 1, Len(s) - 1)) + (s[Len(s)] - 48)

\* f"{n:06d}": sign, then zeros up to a total width of 6, then the digits
MonthWidth == 6
Format06d(n) ==
    LET sign == IF n < 0 THEN <<45>> ELSE <<>>
        body == NatToStr(IF n < 0 THEN -n ELSE n)
        used == Len(sign) + Len(body)
        pad  == IF used < MonthWidth THEN MonthWidth - used ELSE 0
    IN  sign \o [i \in 1..pad |-> 48] \o body

\* Python's str < str
RECURSIVE StrLess(_, _)
StrLess(a, b) ==
    IF b = <<>> THEN FALSE
    ELSE IF a = <<>> THEN TRUE
    ELSE IF a[1] # b[1] THEN a[1] < b[1]
    ELSE StrLess(Tail(a), Tail(b))

\* a stable sort (pandas lexsort; numpy's sort of a short array): s in the
\* order of lt, the set of the pairs <<i, j>> with s[i] before s[j]
StableSort(s, lt) ==
    LET n == Len(s)
        rank(i) == Cardinality({j \in 1..n : \/ <<j, i>> \in lt
                                             \/ (<<i, j>> \notin lt /\ j < i)}) + 1
    IN  [k \in 1..n |-> s[CHOOSE i \in 1..n : rank(i) = k]]

(***************************************************************************)
(* Raw cells of a CSV file: a number, a NaN, or a string.                  *)
(***************************************************************************)
RawNum(n) == [t |-> "num", n |-> n, s |-> <<>>]
RawNaN    == [t |-> "nan", n |-> 0, s |-> <<>>]
RawStr(s) == [t |-> "str", n |-> 0, s |-> s]

\* re.findall(r'\d+', s)[0], or <<>> when there is no digit
RECURSIVE TakeDigits(_)
TakeDigits(s) == IF s = <<>> \/ ~IsDigit(s[1]) THEN <<>>
                 ELSE <<s[1]>> \o TakeDigits(Tail(s))

RECURSIVE FirstDigitRun(_)
FirstDigitRun(s) == IF s = <<>> THEN <<>>
                    ELSE IF IsDigit(s[1]) THEN TakeDigits(s)
                    ELSE FirstDigitRun(Tail(s))

clean_month(x) ==
    IF x.t = "num" THEN Format06d(x.n)
    ELSE IF x.t = "nan" THEN NULL            \* int(nan) raises, caught
    ELSE LET numbers == FirstDigitRun(x.s)
         IN  IF numbers # <<>> THEN Format06d(StrToNat(numbers)) ELSE NULL

\* pd.to_numeric(col, errors='coerce') on one cell
to_numeric(x) ==
    IF x.t = "num" THEN Some(x.n)
    ELSE IF x.t = "nan" THEN NULL
    ELSE IF x.s # <<>> /\ \A i \in 1..Len(x.s) : IsDigit(x.s[i])
         THEN Some(StrToNat(x.s)) ELSE NULL

\* pd.to_numeric(...).fillna(0).astype(int).astype(str)
normalize_id(x) ==
    LET v == to_numeric(x) IN IntToStr(IF v = NULL THEN 0 ELSE v[1])

(***************************************************************************)
(* load_data (src/app.py 25-91).                                           *)
(*                                                                         *)
(* A CSV file is [state, cols, rows]: state is "ok", "missing" or          *)
(* "malformed"; cols is the set of column names of its header; a row holds *)
(* one cell per column the program may read (a cell of a column that is    *)
(* not in cols is never read).  The month column of the sales file is      *)
(* 'ID_Month_Key' (renamed at line 36) or already 'month'.                 *)
(***************************************************************************)
Exc(type, arg, line) == [type |-> type, arg |-> arg, line |-> line]
NoExc == Exc("none", "", 0)

ReadError(f, name, line) ==
    IF f.state = "missing" THEN Exc("FileNotFoundError", name, line)
    ELSE Exc("ParserError", name, line)

\* sales_df.rename(columns={'ID_Month_Key': 'month'})
RenamedCols(cols) ==
    IF "ID_Month_Key" \in cols THEN (cols \ {"ID_Month_Key"}) \cup {"month"}
    ELSE cols

\* the first statement of the try body that raises, NoExc when none does
TryFailure(p, s) ==
    IF p.state # "ok" THEN ReadError(p, "price_all.csv", 29)
    ELSE IF s.state # "ok" THEN ReadError(s, "sales_all.csv", 30)
    ELSE IF "Office" \notin s.cols THEN Exc("KeyError", "Office", 33)
    ELSE IF "net_price" \notin p.cols THEN Exc("KeyError", "net_price", 39)
    ELSE IF "CAI" \notin p.cols THEN Exc("KeyError", "CAI", 42)
    ELSE IF "Cai" \notin s.cols THEN Exc("KeyError", "Cai", 43)
    ELSE IF "month" \notin p.cols THEN Exc("KeyError", "month", 62)
    ELSE IF "month" \notin RenamedCols(s.cols) THEN Exc("KeyError", "month", 63)
    ELSE IF "dimension" \notin p.cols THEN Exc("KeyError", "dimension", 70)
    ELSE IF "Shipped_Qty" \notin s.cols THEN Exc("KeyError", "Shipped_Qty", 73)
    ELSE NoExc

\* the columns of sales_df when the try body raised at e.line
SalesColsAt(s, e) == IF e.line > 36 THEN RenamedCols(s.cols) ELSE s.cols

\* the except block (81-91): what leaves load_data when the try body raised e
ExceptHandler(p, s, e) ==
    LET price_in_locals == e.line > 29
        sales_in_locals == e.line > 30
    IN  IF price_in_locals /\ "month" \notin p.cols
            THEN Exc("KeyError", "month", 85)
        ELSE IF price_in_locals /\ "CAI" \notin p.cols
            THEN Exc("KeyError", "CAI", 86)
        ELSE IF sales_in_locals /\ "month" \notin SalesColsAt(s, e)
            THEN Exc("KeyError", "month", 89)
        ELSE IF sales_in_locals /\ "Cai" \notin s.cols
            THEN Exc("KeyError", "Cai", 90)
        ELSE e

\* lines 39, 42, 62, 70 on one price row
CleanPriceRow(r) ==
    [month |-> clean_month(r.month), dimension |-> r.dimension,
     CAI |-> normalize_id(r.CAI), description |-> r.description,
     net_price |-> to_numeric(r.net_price)]

\* lines 43, 63, 73 on one sales row
CleanSalesRow(r) ==
    [month |-> clean_month(r.month), Office |-> r.Office,
     Cai |-> normalize_id(r.Cai), Shipped_Qty |-> r.Shipped_Qty,
     sales_amount |-> r.Shipped_Qty]

HasMonth(r) == r.month # NULL

\* sort_values(['month', '规格', 'CAI'])
PriceKeyLess(a, b) ==
    \/ StrLess(a.month, b.month)
    \/ a.month = b.month /\ StrLess(a.dimension, b.dimension)
    \/ a.month = b.month /\ a.dimension = b.dimension /\ StrLess(a.CAI, b.CAI)

SameGroup(a, b) == a.dimension = b.dimension /\ a.CAI = b.CAI

\* groupby(['规格', 'CAI'])['净价-不含售出'].shift(1), for row i of rows
GroupShiftNoGroup(rows, i) == IF i = 1 THEN NULL ELSE rows[i - 1].net_price

\* the calendar month before a canonical month key
PrevMonth(m) ==
    LET n == StrToNat(m)
    IN  Format06d(IF n % 100 = 1 THEN n - 89 ELSE n - 1)

GroupShiftCalendar(rows, i) ==
    LET before == {j \in 1..(i - 1) : /\ SameGroup(rows[j], rows[i])
                                      /\ rows[j].month = PrevMonth(rows[i].month)}
    IN  IF before = {} THEN NULL
        ELSE rows[CHOOSE j \in before : \A k \in before : k <= j].net_price

GroupShift(rows, i) ==
    LET before == {j \in 1..(i - 1) : SameGroup(rows[j], rows[i])}
    IN  IF before = {} THEN NULL
        ELSE rows[CHOOSE j \in before : \A k \in before : k <= j].net_price

\* a - b on nullable numbers (NaN when either is NaN)
NullableMinus(a, b) == IF a = NULL \/ b = NULL THEN NULL ELSE Some(a[1] - b[1])

\* lines 39-42, 62, 66, 70, 76-78
LoadPrice(rawrows) ==
    LET cleaned == SelectSeq([i \in 1..Len(rawrows) |-> CleanPriceRow(rawrows[i])],
                             HasMonth)
        sorted  == StableSort(cleaned,
                              {ij \in (1..Len(cleaned)) \X (1..Len(cleaned)) :
                                  PriceKeyLess(cleaned[ij[1]], cleaned[ij[2]])})
    IN  [i \in 1..Len(sorted) |->
            LET prior == GroupShift(sorted, i)
            IN  [month |-> sorted[i].month, dimension |-> sorted[i].dimension,
                 CAI |-> sorted[i].CAI, description |-> sorted[i].description,
                 net_price |-> sorted[i].net_price, prior_price |-> prior,
                 price_delta |-> NullableMinus(sorted[i].net_price, prior)]]

IsHZ(r) == r.Office = "HZ"

\* lines 33, 36, 43, 63, 67, 73
LoadSales(rawrows) ==
    LET hz == SelectSeq(rawrows, IsHZ)
    IN  SelectSeq([i \in 1..Len(hz) |-> CleanSalesRow(hz[i])], HasMonth)

\* the whole of load_data: the tables it returns, or the exception that
\* leaves it (failure is what the try body raised)
load_data(p, s) ==
    LET e == TryFailure(p, s)
    IN  IF e = NoExc
        THEN [status |-> "returned", failure |-> NoExc, propagated |-> NoExc,
              price_df |-> LoadPrice(p.rows), sales_df |-> LoadSales(s.rows)]
        ELSE [status |-> "raised", failure |-> e,
              propagated |-> ExceptHandler(p, s, e),
              price_df |-> <<>>, sales_df |-> <<>>]

(***************************************************************************)
(* The script body (src/app.py 231-389): one pass of the dashboard.        *)
(***************************************************************************)
\* the selectbox entry '所有'
ALL == <<25152, 26377>>

\* the first month shown, '202401' (lines 236-237)
FloorMonth == Str(<<2,0,2,4,0,1>>)

FromFloor(r) == ~StrLess(r.month, FloorMonth)

\* f"{x[:4]}/{x[4:]}"
DisplayMonth(x) ==
    SubSeq(x, 1, IF Len(x) < 4 THEN Len(x) ELSE 4) \o <<47>> \o SubSeq(x, 5, Len(x))

\* sorted(set(...)) of strings
SortedStrings(S) ==
    [k \in 1..Cardinality(S) |->
        CHOOSE x \in S : Cardinality({y \in S : StrLess(y, x)}) = k - 1]

Range(s) == {s[i] : i \in 1..Len(s)}

IndexOf(s, x) == CHOOSE i \in 1..Len(s) : s[i] = x

RECURSIVE Flatten(_)
Flatten(ss) == IF ss = <<>> THEN <<>> ELSE Head(ss) \o Flatten(Tail(ss))

RECURSIVE SumSeq(_)
SumSeq(s) == IF s = <<>> THEN 0 ELSE Head(s) + SumSeq(Tail(s))

\* the non-null values of a column
Values(cells) ==
    LET present == SelectSeq(cells, LAMBDA c : c # NULL)
    IN  [i \in 1..Len(present) |-> present[i][1]]

\* Series.sum(): NaN skipped, 0 for nothing
Sum(cells) == Some(SumSeq(Values(cells)))

\* Series.mean(): NaN skipped, NaN for nothing; in hundredths, as round(2)
\* shows it (no tie arises with fewer than 8 values)
Mean(cells) ==
    LET v == Values(cells)
    IN  IF v = <<>> THEN NULL
        ELSE Some((200 * SumSeq(v) + Len(v)) \div (2 * Len(v)))

Min(cells) ==
    LET v == Range(Values(cells))
    IN  IF v = {} THEN NULL ELSE Some(CHOOSE x \in v : \A y \in v : x <= y)

Max(cells) ==
    LET v == Range(Values(cells))
    IN  IF v = {} THEN NULL ELSE Some(CHOOSE x \in v : \A y \in v : x >= y)

\* GroupBy.last(): the last non-null value, NaN for nothing
Last(cells) ==
    LET v == Values(cells) IN IF v = <<>> THEN NULL ELSE Some(v[Len(v)])

\* the columns '净价-不含售出' and 'Shipped_Qty'
NetPrices(df) == [i \in 1..Len(df) |-> df[i].net_price]
Quantities(df) == [i \in 1..Len(df) |-> df[i].Shipped_Qty]

\* lines 288-297, the price table
FilterPrice(df, selected_cai, selected_dim, selected_month) ==
    SelectSeq(df, LAMBDA r :
        /\ selected_cai = ALL \/ r.CAI = selected_cai
        /\ selected_dim = ALL \/ r.dimension = selected_dim
        /\ selected_month = ALL \/ r.month = selected_month)

\* lines 288-297, the sales table
FilterSalesProductOnly(df, selected_cai, selected_month) ==
    SelectSeq(df, LAMBDA r : selected_cai = ALL \/ r.Cai = selected_cai)

FilterSales(df, selected_cai, selected_month) ==
    SelectSeq(df, LAMBDA r :
        /\ selected_cai = ALL \/ r.Cai = selected_cai
        /\ selected_month = ALL \/ r.month = selected_month)

\* pd.merge(..., how='left') on (month, CAI) = (month, Cai), lines 303-309
JoinedRow(r, qty) ==
    [month |-> r.month, dimension |-> r.dimension, CAI |-> r.CAI,
     description |-> r.description, net_price |-> r.net_price,
     prior_price |-> r.prior_price, price_delta |-> r.price_delta,
     Shipped_Qty |-> qty]

LeftMerge(left, right) ==
    Flatten([i \in 1..Len(left) |->
        LET matches == SelectSeq(right, LAMBDA q :
                           q.month = left[i].month /\ q.Cai = left[i].CAI)
        IN  IF matches = <<>> THEN <<JoinedRow(left[i], NULL)>>
            ELSE [k \in 1..Len(matches) |->
                     JoinedRow(left[i], matches[k].Shipped_Qty)]])

\* lines 312-329: the displayed table
FormattedRow(r) ==
    [display_month |-> DisplayMonth(r.month), dimension |-> r.dimension,
     CAI |-> r.CAI, description |-> r.description, net_price |-> r.net_price,
     prior_price |-> r.prior_price, price_delta |-> r.price_delta,
     qty |-> IF r.Shipped_Qty = NULL THEN 0 ELSE r.Shipped_Qty[1]]

Format(merged) ==
    LET rows == [i \in 1..Len(merged) |-> FormattedRow(merged[i])]
    IN  StableSort(rows, {ij \in (1..Len(rows)) \X (1..Len(rows)) :
                             StrLess(rows[ij[2]].display_month,
                                     rows[ij[1]].display_month)})

\* lines 116-170 of create_trend_chart: the two traces of the figure
MonthsOf(df) == {df[i].month : i \in 1..Len(df)}

TrendTraces(price_in, sales_in, selected_cai) ==
    LET narrowed == selected_cai # <<>> /\ selected_cai # ALL
        pdf == IF narrowed
               THEN SelectSeq(price_in, LAMBDA r : r.CAI = selected_cai)
               ELSE price_in
        sdf == IF narrowed
               THEN SelectSeq(sales_in, LAMBDA r : r.Cai = selected_cai)
               ELSE sales_in
        sales_summary(m) ==
            Sum(Quantities(SelectSeq(sdf, LAMBDA r : r.month = m)))
        price_summary(m) ==
            Mean(NetPrices(SelectSeq(pdf, LAMBDA r : r.month = m)))
        all_months == SortedStrings(MonthsOf(pdf) \cup MonthsOf(sdf))
    IN  IF pdf # <<>> /\ sdf # <<>>
        THEN [bar  |-> [k \in 1..Len(all_months) |->
                          [x |-> DisplayMonth(all_months[k]),
                           y |-> IF all_months[k] \in MonthsOf(sdf)
                                 THEN sales_summary(all_months[k])
                                 ELSE Some(0)]],
              line |-> [k \in 1..Len(all_months) |->
                          [x |-> DisplayMonth(all_months[k]),
                           y |-> IF all_months[k] \in MonthsOf(pdf)
                                 THEN price_summary(all_months[k])
                                 ELSE NULL]]]
        ELSE [bar |-> <<>>, line |-> <<>>]

\* lines 346-351: one row per dimension of the filtered price rows
DimStats(df) ==
    {LET cells == NetPrices(SelectSeq(df, LAMBDA r : r.dimension = d))
     IN  [dimension |-> d, mean |-> Mean(cells), min |-> Min(cells),
          max |-> Max(cells)] : d \in {df[i].dimension : i \in 1..Len(df)}}

\* lines 354-362: one row per (CAI, description) of the filtered price rows
CaiStats(df) ==
    {LET cells == NetPrices(SelectSeq(df,
                         LAMBDA r : r.CAI = g[1] /\ r.description = g[2]))
         bymonth == StableSort(df, {ij \in (1..Len(df)) \X (1..Len(df)) :
                                      StrLess(df[ij[1]].month, df[ij[2]].month)})
         ordered == NetPrices(SelectSeq(bymonth,
                         LAMBDA r : r.CAI = g[1] /\ r.description = g[2]))
     IN  [CAI |-> g[1], description |-> g[2], mean |-> Mean(cells),
          min |-> Min(cells), max |-> Max(cells), latest |-> Last(ordered)] :
        g \in {<<df[i].CAI, df[i].description>> : i \in 1..Len(df)}}

\* what one pass displays for a selection (lines 284-362)
Render(price_df, sales_df, selected_cai, selected_dim, selected_month) ==
    LET fp == FilterPrice(price_df, selected_cai, selected_dim, selected_month)
        fs == FilterSales(sales_df, selected_cai, selected_month)
        merged == LeftMerge(fp, fs)
    IN  [error |-> FALSE,
         selected_cai |-> selected_cai, selected_dim |-> selected_dim,
         selected_month |-> selected_month,
         filtered_price_df |-> fp, filtered_sales_df |-> fs,
         merged_df |-> merged, formatted_df |-> Format(merged),
         fig |-> TrendTraces(fp, fs, selected_cai),
         dim_stats |-> DimStats(fp), cai_stats |-> CaiStats(fp)]

\* nothing displayed yet, or the error report of lines 386-389
Blank(err) ==
    [error |-> err, selected_cai |-> ALL, selected_dim |-> ALL,
     selected_month |-> ALL, filtered_price_df |-> <<>>,
     filtered_sales_df |-> <<>>, merged_df |-> <<>>, formatted_df |-> <<>>,
     fig |-> [bar |-> <<>>, line |-> <<>>], dim_stats |-> {}, cai_stats |-> {}]

(***************************************************************************)
(* State: the two files on disk, the outcome of the last call of load_data *)
(* (kept by st.cache_data once it returned), st.session_state, the four    *)
(* selectboxes, what the last pass displayed, and why a pass of the script *)
(* is due: "none" (the page is settled), "load" (the page is opened),      *)
(* "rerun" (st.experimental_rerun) or the key of the selectbox the user    *)
(* changed.                                                                *)
(***************************************************************************)
VARIABLES price_csv, sales_csv, load_result, session_state,
          cai_selector_main, dim_selector, month_selector,
          cai_selector_from_stats, view, trigger

load_vars == <<price_csv, sales_csv, load_result>>
app_vars == <<session_state, cai_selector_main, dim_selector, month_selector,
              cai_selector_from_stats, view, trigger>>
vars == <<price_csv, sales_csv, load_result, session_state,
          cai_selector_main, dim_selector, month_selector,
          cai_selector_from_stats, view, trigger>>

SeqsUpTo(n, S) == UNION {[1..k -> S] : k \in 0..n}

A == <<65>>
B == <<66>>

FileStates == {"ok", "missing", "malformed"}
PriceCols == {"month", "dimension", "CAI", "net_price"}
SalesCols == {"Office", "ID_Month_Key", "month", "Cai", "Shipped_Qty"}

PriceRow(m, d, c, p) ==
    [month |-> m, dimension |-> d, CAI |-> c, description |-> "tyre",
     net_price |-> p]
SalesRow(m, o, c, q) ==
    [month |-> m, Office |-> o, Cai |-> c, Shipped_Qty |-> q]

StdPriceRow == PriceRow(RawNum(202401), A, RawNum(100), RawNum(10))
StdSalesRow == SalesRow(RawNum(202401), "HZ", RawNum(100), Some(5))

\* raw month cells: numbers of several magnitudes and signs, a NaN, strings
\* with a short, an exact, a long and no digit run
RawMonths ==
    {RawNum(202401), RawNum(5), RawNum(2024011), RawNum(-5), RawNaN,
     RawStr(Str(<<2,0,2,4,0,3>>)),
     RawStr(Str(<<2,0,2,4>>) \o <<45>> \o Str(<<0,1>>)),
     RawStr(<<109>> \o Str(<<2,0,2,4,0,2>>) \o <<120>>),
     RawStr(Str(<<2,0,2,4,0,1,0,1>>)),
     RawStr(<<97, 98, 99>>)}

\* rows of two groups over three months, one of them after a skipped month
LagRows ==
    {PriceRow(RawNum(m), d, RawNum(100), p) :
        m \in {202401, 202402, 202404}, d \in {A, B},
        p \in {RawNum(10), RawNum(12), RawNaN}}

\* price rows of one dimension and two products, sales rows of the same
\* products, over two months
JoinPriceRows ==
    {PriceRow(RawNum(202401), A, RawNum(100), RawNum(10)),
     PriceRow(RawNum(202402), A, RawNum(200), RawNum(10))}
JoinSalesRows ==
    {SalesRow(RawNum(202401), "HZ", RawNum(100), Some(5)),
     SalesRow(RawNum(202402), "HZ", RawNum(200), Some(3))}

\* price rows of two dimensions of one product, with and without a price:
\* two months of the first dimension, one month of the second
StatsPriceRows ==
    {PriceRow(RawNum(202401), A, RawNum(100), RawNum(10)),
     PriceRow(RawNum(202401), A, RawNum(100), RawNaN),
     PriceRow(RawNum(202402), A, RawNum(100), RawNum(20)),
     PriceRow(RawNum(202402), A, RawNum(100), RawNaN),
     PriceRow(RawNum(202401), B, RawNum(100), RawNum(10)),
     PriceRow(RawNum(202401), B, RawNum(100), RawNaN)}

\* files with rows of the month before the first month shown
FloorPriceRows ==
    <<PriceRow(RawNum(202312), A, RawNum(100), RawNum(10)),
      PriceRow(RawNum(202401), A, RawNum(100), RawNum(20))>>
FloorSalesRows ==
    <<SalesRow(RawNum(202312), "HZ", RawNum(100), Some(5)),
      SalesRow(RawNum(202401), "HZ", RawNum(100), Some(5))>>

OkFile(cols, rows) == [state |-> "ok", cols |-> cols, rows |-> rows]

NotCalled ==
    [status |-> "pending", failure |-> NoExc, propagated |-> NoExc,
     price_df |-> <<>>, sales_df |-> <<>>]

NotRendered == [value |-> NULL, options |-> <<>>, index |-> 0]

\* a fresh browser session: nothing in session_state, no widget rendered,
\* the first pass due
FreshSession ==
    /\ load_result = NotCalled
    /\ session_state = [selected_cai |-> NULL]
    /\ cai_selector_main = NotRendered
    /\ dim_selector = NotRendered
    /\ month_selector = NotRendered
    /\ cai_selector_from_stats = NotRendered
    /\ view = Blank(FALSE)
    /\ trigger = "load"

\* any header and any file state, over fixed rows
InitColumns ==
    /\ price_csv \in [state : FileStates, cols : SUBSET PriceCols,
                      rows : {<<StdPriceRow>>}]
    /\ sales_csv \in [state : FileStates, cols : SUBSET SalesCols,
                      rows : {<<StdSalesRow>>}]

\* any raw month cell in either file
InitMonths ==
    /\ price_csv \in {OkFile(PriceCols, rows) : rows \in
           SeqsUpTo(MaxMonthRows,
                    {PriceRow(m, A, RawNum(100), RawNum(10)) : m \in RawMonths})}
    /\ sales_csv \in {OkFile(SalesCols \ {"month"}, rows) : rows \in
           SeqsUpTo(MaxMonthRows,
                    {SalesRow(m, o, RawNum(100), Some(5)) :
                        m \in RawMonths, o \in {"HZ", "SH"}})}

\* any price history
InitLag ==
    /\ price_csv \in {OkFile(PriceCols, rows) : rows \in SeqsUpTo(MaxRows, LagRows)}
    /\ sales_csv = OkFile(SalesCols \ {"month"}, <<StdSalesRow>>)

InitLoad ==
    /\ (InitColumns \/ InitMonths \/ InitLag)
    /\ FreshSession

\* load_data() called on its own
LoadData ==
    /\ load_result.status = "pending"
    /\ load_result' = load_data(price_csv, sales_csv)
    /\ UNCHANGED <<price_csv, sales_csv>>
    /\ UNCHANGED app_vars

NextLoad == LoadData

SpecLoad == InitLoad /\ [][NextLoad]_vars

(***************************************************************************)
(* The dashboard: user changes of the four selectboxes and passes of the   *)
(* script.                                                                 *)
(***************************************************************************)
\* any price and sales rows to join
InitJoin ==
    /\ price_csv \in {OkFile(PriceCols, rows) : rows \in
                         SeqsUpTo(MaxJoinRows, JoinPriceRows)}
    /\ sales_csv \in {OkFile(SalesCols \ {"month"}, rows) : rows \in
                         SeqsUpTo(MaxSalesRows, JoinSalesRows)}

\* any price rows to summarise
InitStats ==
    /\ price_csv \in {OkFile(PriceCols, rows) : rows \in
                         SeqsUpTo(MaxStatsRows, StatsPriceRows)}
    /\ sales_csv = OkFile(SalesCols \ {"month"}, <<StdSalesRow>>)

\* rows before the first month shown
InitFloor ==
    /\ price_csv = OkFile(PriceCols, FloorPriceRows)
    /\ sales_csv = OkFile(SalesCols \ {"month"}, FloorSalesRows)

InitApp ==
    /\ (InitJoin \/ InitStats \/ InitFloor)
    /\ FreshSession

\* st.selectbox(label, options, index, key): the value it returns.  A widget
\* rendered with the options and index of the pass before keeps the value
\* the user gave it.  With other options or another index Streamlit either
\* builds a new widget showing options[index] or, identifying the widget by
\* its key, keeps a value that is still among the options: both are allowed.
SelectboxValues(w, options, index) ==
    IF w.value = NULL THEN {options[index]}
    ELSE IF w.options = options /\ w.index = index THEN {w.value}
    ELSE {options[index]} \cup ({w.value} \cap Range(options))

Rendered(value, options, index) ==
    [value |-> value, options |-> options, index |-> index]

\* one pass of the script, lines 231-389
RunScript ==
    /\ trigger # "none"
    /\ UNCHANGED <<price_csv, sales_csv>>
    /\ LET result == IF load_result.status = "returned" THEN load_result
                     ELSE load_data(price_csv, sales_csv)
       IN  /\ load_result' = result
           /\ IF result.status = "raised"
              THEN /\ view' = Blank(TRUE)
                   /\ trigger' = "none"
                   /\ UNCHANGED <<session_state, cai_selector_main, dim_selector,
                                  month_selector, cai_selector_from_stats>>
              ELSE LET price_df == SelectSeq(result.price_df, FromFloor)
                       sales_df == SelectSeq(result.sales_df, FromFloor)
                       stored == IF session_state.selected_cai = NULL THEN ALL
                                 ELSE session_state.selected_cai
                       all_cais == <<ALL>> \o SortedStrings(
                                      {price_df[i].CAI : i \in 1..Len(price_df)})
                       all_dims == <<ALL>> \o SortedStrings(
                                      {price_df[i].dimension : i \in 1..Len(price_df)})
                       all_months == SortedStrings(MonthsOf(price_df))
                       month_display == <<ALL>> \o [i \in 1..Len(all_months) |->
                                                      DisplayMonth(all_months[i])]
                       main_index == IndexOf(all_cais, stored)
                   IN  \E selected_cai \in SelectboxValues(cai_selector_main, all_cais, main_index),
                          selected_dim \in SelectboxValues(dim_selector, all_dims, 1),
                          selected_month_display \in SelectboxValues(month_selector, month_display, 1) :
                          LET selected_month ==
                                  IF selected_month_display # ALL
                                  THEN CHOOSE m \in Range(all_months) :
                                          DisplayMonth(m) = selected_month_display
                                  ELSE ALL
                              shown == Render(price_df, sales_df, selected_cai,
                                              selected_dim, selected_month)
                              stats_options == <<ALL>> \o SortedStrings(
                                                  {r.CAI : r \in shown.cai_stats})
                          IN  \E selected_cai_from_stats \in
                                     SelectboxValues(cai_selector_from_stats, stats_options, 1) :
                                 /\ cai_selector_main' =
                                       Rendered(selected_cai, all_cais, main_index)
                                 /\ dim_selector' = Rendered(selected_dim, all_dims, 1)
                                 /\ month_selector' =
                                       Rendered(selected_month_display, month_display, 1)
                                 /\ cai_selector_from_stats' =
                                       Rendered(selected_cai_from_stats, stats_options, 1)
                                 /\ view' = shown
                                 /\ IF selected_cai_from_stats # selected_cai
                                    THEN /\ session_state' =
                                               [selected_cai |-> selected_cai_from_stats]
                                         /\ trigger' = "rerun"
                                    ELSE /\ session_state' =
                                               [selected_cai |-> selected_cai]
                                         /\ trigger' = "none"

\* the user picks another entry of a selectbox of the settled page
Pick(w, v) ==
    /\ trigger = "none"
    /\ w.value # NULL
    /\ v \in Range(w.options) \ {w.value}
    /\ UNCHANGED <<price_csv, sales_csv, load_result, session_state, view>>

ChangeCaiMain ==
    \E v \in Range(cai_selector_main.options) :
        /\ Pick(cai_selector_main, v)
        /\ cai_selector_main' = [cai_selector_main EXCEPT !.value = v]
        /\ trigger' = "cai_selector_main"
        /\ UNCHANGED <<dim_selector, month_selector, cai_selector_from_stats>>

ChangeDim ==
    \E v \in Range(dim_selector.options) :
        /\ Pick(dim_selector, v)
        /\ dim_selector' = [dim_selector EXCEPT !.value = v]
        /\ trigger' = "dim_selector"
        /\ UNCHANGED <<cai_selector_main, month_selector, cai_selector_from_stats>>

ChangeMonth ==
    \E v \in Range(month_selector.options) :
        /\ Pick(month_selector, v)
        /\ month_selector' = [month_selector EXCEPT !.value = v]
        /\ trigger' = "month_selector"
        /\ UNCHANGED <<cai_selector_main, dim_selector, cai_selector_from_stats>>

ChangeCaiFromStats ==
    \E v \in Range(cai_selector_from_stats.options) :
        /\ Pick(cai_selector_from_stats, v)
        /\ cai_selector_from_stats' = [cai_selector_from_stats EXCEPT !.value = v]
        /\ trigger' = "cai_selector_from_stats"
        /\ UNCHANGED <<cai_selector_main, dim_selector, month_selector>>

NextApp ==
    \/ RunScript
    \/ ChangeCaiMain
    \/ ChangeDim
    \/ ChangeMonth
    \/ ChangeCaiFromStats

SpecApp == InitApp /\ [][NextApp]_vars

(***************************************************************************)
(* Properties of load_data.                                                *)
(***************************************************************************)
Returned == load_result.status = "returned"
Raised   == load_result.status = "raised"

\* the rows of one (dimension, product_id) group, in the order of the table
GroupRows(df, d, c) == SelectSeq(df, LAMBDA r : r.dimension = d /\ r.CAI = c)

IsCanonicalMonth(m) == Len(m) = 6 /\ \A i \in 1..Len(m) : IsDigit(m[i])

\* C3: whenever load_data fails, the exception that leaves it is the one its
\* try body raised; the reporting of the except block never replaces it.
C3_OriginalErrorPropagates ==
    Raised => load_result.propagated = load_result.failure

\* C5: in the returned price table every (dimension, product_id) group is in
\* ascending month order, the prior_month_price of its k-th row is the
\* net_price of its (k-1)-th row and null for the first row, whether or not
\* months are skipped between the two, and price_delta is net_price minus it.
C5_PositionalLag ==
    Returned =>
        \A i \in 1..Len(load_result.price_df) :
            LET df == load_result.price_df
                g  == GroupRows(df, df[i].dimension, df[i].CAI)
            IN  \A k \in 1..Len(g) :
                    /\ k = 1 => g[k].prior_price = NULL
                    /\ k > 1 => /\ g[k].prior_price = g[k - 1].net_price
                                /\ ~StrLess(g[k].month, g[k - 1].month)
                    /\ g[k].price_delta =
                          IF g[k].net_price = NULL \/ g[k].prior_price = NULL
                          THEN NULL
                          ELSE Some(g[k].net_price[1] - g[k].prior_price[1])

\* a group whose second row comes after a skipped month and carries the
\* price of the row before the gap
C5_Witness ==
    /\ Returned
    /\ \E i \in 1..Len(load_result.price_df) :
          LET df == load_result.price_df
              g  == GroupRows(df, df[i].dimension, df[i].CAI)
          IN  \E k \in 2..Len(g) :
                 /\ g[k].month = Str(<<2,0,2,4,0,4>>)
                 /\ g[k - 1].month = Str(<<2,0,2,4,0,2>>)
                 /\ g[k - 1].net_price # NULL
                 /\ g[k].prior_price = g[k - 1].net_price
                 /\ g[k].price_delta # NULL

\* the rows of the group of row i whose month is before that of row i
EarlierMonths(df, i) ==
    {j \in 1..Len(df) : SameGroup(df[j], df[i]) /\ StrLess(df[j].month, df[i].month)}

\* row i is the first row of its month in its group
FirstOfMonth(df, i) ==
    \A j \in 1..(i - 1) : ~(SameGroup(df[j], df[i]) /\ df[j].month = df[i].month)

\* the group of row i has no record of the calendar month before its month
GapBefore(df, i) ==
    /\ IsCanonicalMonth(df[i].month)
    /\ \A j \in 1..Len(df) :
          ~(SameGroup(df[j], df[i]) /\ df[j].month = PrevMonth(df[i].month))

\* C6 as stated: the prior_month_price of the record of month M is null when
\* no record of the group exists before M or when the calendar month before M
\* has no record in the group.
C6_NullOnGap ==
    Returned =>
        \A i \in 1..Len(load_result.price_df) :
            LET df == load_result.price_df
            IN  (FirstOfMonth(df, i) /\ (EarlierMonths(df, i) = {} \/ GapBefore(df, i)))
                    => df[i].prior_price = NULL

\* C6 amended: the prior_month_price of the first record of month M of a
\* group is null when the group has no record of a month before M; a gap
\* does not null it: when the calendar month before M has no record but
\* earlier months have, it is the net_price of the last record of the latest
\* earlier month.
C6_NullOnlyWithoutEarlierRecord ==
    Returned =>
        \A i \in 1..Len(load_result.price_df) :
            LET df == load_result.price_df
                earlier == EarlierMonths(df, i)
                latest == {j \in earlier :
                              \A k \in earlier :
                                 \/ StrLess(df[k].month, df[j].month)
                                 \/ (df[k].month = df[j].month /\ k <= j)}
            IN  FirstOfMonth(df, i) =>
                    /\ earlier = {} => df[i].prior_price = NULL
                    /\ (earlier # {} /\ GapBefore(df, i)) =>
                          \E j \in latest : df[i].prior_price = df[j].net_price

\* a record after a gap whose prior_month_price is the price before the gap
C6_Witness ==
    /\ Returned
    /\ \E i \in 1..Len(load_result.price_df) :
          LET df == load_result.price_df
          IN  /\ FirstOfMonth(df, i)
              /\ GapBefore(df, i)
              /\ EarlierMonths(df, i) # {}
              /\ df[i].prior_price # NULL
    /\ \E i \in 2..Len(load_result.price_df) :
          LET df == load_result.price_df
          IN  EarlierMonths(df, i) = {} /\ df[i].prior_price = NULL

\* C7: every row of both returned tables has a month key of exactly six
\* decimal digits, whatever the raw month cells were.
C7_MonthKeysCanonical ==
    Returned =>
        /\ \A i \in 1..Len(load_result.price_df) :
              IsCanonicalMonth(load_result.price_df[i].month)
        /\ \A i \in 1..Len(load_result.sales_df) :
              IsCanonicalMonth(load_result.sales_df[i].month)

(***************************************************************************)
(* Properties of a pass of the script.                                     *)
(***************************************************************************)
\* a pass has displayed the dashboard
Shown == load_result.status = "returned" /\ cai_selector_main.value # NULL /\ ~view.error

\* the loaded tables from the first month shown on
FloorPrices == SelectSeq(load_result.price_df, FromFloor)
FloorSales  == SelectSeq(load_result.sales_df, FromFloor)

\* a displayed row shows price row r
Shows(f, r) ==
    /\ f.display_month = DisplayMonth(r.month)
    /\ f.dimension = r.dimension
    /\ f.CAI = r.CAI
    /\ f.description = r.description
    /\ f.net_price = r.net_price
    /\ f.prior_price = r.prior_price

\* C1: the displayed join holds every filtered price row exactly once: as
\* many rows as price rows, each price row shown as often as it occurs, and
\* a price row without a sales row of its (month, product_id) with quantity 0.
C1_PriceRowsOnce ==
    Shown =>
        LET fp == view.filtered_price_df
            fs == view.filtered_sales_df
            out == view.formatted_df
        IN  /\ Len(out) = Len(fp)
            /\ \A i \in 1..Len(fp) :
                  /\ Cardinality({k \in 1..Len(out) : Shows(out[k], fp[i])})
                        = Cardinality({j \in 1..Len(fp) : fp[j] = fp[i]})
                  /\ (\A q \in Range(fs) : ~(q.month = fp[i].month /\ q.Cai = fp[i].CAI))
                        => \E k \in 1..Len(out) : Shows(out[k], fp[i]) /\ out[k].qty = 0

\* the k-th month of a set of month keys, in ascending order
KthMonth(S, k) == CHOOSE m \in S : Cardinality({n \in S : StrLess(n, m)}) = k - 1

\* C2: both traces of the trend chart have exactly one point per month of
\* the union of the months of the filtered price rows and the filtered sales
\* rows, in ascending month order, also when one of the two is empty.
C2_TrendMonthsAreUnion ==
    Shown =>
        LET months == MonthsOf(view.filtered_price_df) \cup MonthsOf(view.filtered_sales_df)
        IN  /\ Len(view.fig.bar) = Cardinality(months)
            /\ Len(view.fig.line) = Cardinality(months)
            /\ \A k \in 1..Cardinality(months) :
                  /\ view.fig.bar[k].x = DisplayMonth(KthMonth(months, k))
                  /\ view.fig.line[k].x = DisplayMonth(KthMonth(months, k))

SelectorKeys ==
    {"cai_selector_main", "dim_selector", "month_selector", "cai_selector_from_stats"}

\* C4: the pass that a user change of a selectbox triggers is the only one:
\* it requests no rerun and leaves session_state.selected_cai equal to the
\* product code the user selected.
C4_OnePassPerChange ==
    [][(RunScript /\ trigger \in SelectorKeys) =>
          /\ trigger' = "none"
          /\ trigger = "cai_selector_main" =>
                session_state'.selected_cai = cai_selector_main.value
          /\ trigger = "cai_selector_from_stats" =>
                session_state'.selected_cai = cai_selector_from_stats.value]_vars

\* the rows of a (product_id, description) group of the filtered price rows
StatGroup(df, c, d) == SelectSeq(df, LAMBDA r : r.CAI = c /\ r.description = d)

\* C8: the latest value of every (product_id, description) group is the
\* net_price of a row of the greatest month of the group, null when that
\* price is null.
C8_LatestIsLastMonth ==
    Shown =>
        \A st \in view.cai_stats :
            LET g == StatGroup(view.filtered_price_df, st.CAI, st.description)
            IN  \E i \in 1..Len(g) :
                    /\ \A j \in 1..Len(g) : ~StrLess(g[i].month, g[j].month)
                    /\ st.latest = g[i].net_price

\* the non-null prices of a dimension of the filtered price rows
DimPrices(df, d) ==
    {df[i].net_price[1] : i \in {j \in 1..Len(df) :
                                    df[j].dimension = d /\ df[j].net_price # NULL}}

\* C9: dimension_stats has one row per dimension with a non-null price and
\* none for a dimension whose prices are all null; min and max are the
\* least and greatest non-null price and the mean lies between them.
C9_DimStatsSkipNull ==
    Shown =>
        LET df == view.filtered_price_df
        IN  /\ {st.dimension : st \in view.dim_stats}
                  = {df[i].dimension : i \in {j \in 1..Len(df) : df[j].net_price # NULL}}
            /\ \A st \in view.dim_stats :
                  /\ st.min # NULL /\ st.min[1] \in DimPrices(df, st.dimension)
                  /\ st.max # NULL /\ st.max[1] \in DimPrices(df, st.dimension)
                  /\ \A v \in DimPrices(df, st.dimension) : st.min[1] <= v /\ v <= st.max[1]
                  /\ st.mean # NULL
                  /\ 100 * st.min[1] <= st.mean[1] /\ st.mean[1] <= 100 * st.max[1]

MatchesCai(c, sel) == sel = ALL \/ c = sel

\* C10 as stated: the filtered sales rows are the sales rows of the selected
\* product, whatever the dimension and month selections.
C10_SalesByProductOnly ==
    Shown =>
        view.filtered_sales_df =
            SelectSeq(FloorSales, LAMBDA r : MatchesCai(r.Cai, view.selected_cai))

\* C10 amended: the product-id and month selections narrow both tables, the
\* dimension selection the price rows only: the filtered sales rows are the
\* sales rows of the selected product and month whatever the dimension
\* selection, the filtered price rows those of the selected product,
\* dimension and month.
C10_SalesByProductAndMonth ==
    Shown =>
        /\ \A i \in 1..Len(view.filtered_sales_df) :
              /\ MatchesCai(view.filtered_sales_df[i].Cai, view.selected_cai)
              /\ view.selected_month \in {ALL, view.filtered_sales_df[i].month}
        /\ Len(view.filtered_sales_df) =
              Cardinality({i \in 1..Len(FloorSales) :
                              /\ MatchesCai(FloorSales[i].Cai, view.selected_cai)
                              /\ view.selected_month \in {ALL, FloorSales[i].month}})
        /\ \A i \in 1..Len(view.filtered_price_df) :
              /\ MatchesCai(view.filtered_price_df[i].CAI, view.selected_cai)
              /\ view.selected_dim \in {ALL, view.filtered_price_df[i].dimension}
              /\ view.selected_month \in {ALL, view.filtered_price_df[i].month}
        /\ Len(view.filtered_price_df) =
              Cardinality({i \in 1..Len(FloorPrices) :
                              /\ MatchesCai(FloorPrices[i].CAI, view.selected_cai)
                              /\ view.selected_dim \in {ALL, FloorPrices[i].dimension}
                              /\ view.selected_month \in {ALL, FloorPrices[i].month}})

\* a dimension and a month are selected, the month has dropped a sales row
\* and the dimension none
C10_Witness ==
    /\ Shown
    /\ view.selected_dim # ALL
    /\ view.selected_month # ALL
    /\ view.filtered_sales_df # <<>>
    /\ Len(view.filtered_sales_df) < Len(FloorSales)
    /\ view.filtered_price_df # <<>>

====
